---- MODULE Spec2Model ----
(* VPN configuration parser and connection manager of src-tauri/src/lib.rs. *)
(* Text is modelled as a sequence of lines, a line as a sequence of tokens;  *)
(* the token " " is a whitespace character, every other token is a run of   *)
(* non-whitespace characters that none of the scanned keywords splits.       *)
EXTENDS Integers, Sequences, FiniteSets, TLC

VARIABLES content, info, fs, call

vars == <<content, info, fs, call>>

\* Option<T>: None is the empty tuple, Some(x) the one-element tuple.
None == <<>>
Some(x) == <<x>>

----------------------------------------------------------------------------
\* Bounds of the explored inputs.
MaxBody == 3
MaxPathLen == 2
MaxPhrases == 2

----------------------------------------------------------------------------
\* String primitives of the Rust standard library on token sequences.

IsWs(t) == t = " "

RECURSIVE TrimStart(_)
TrimStart(s) == IF s # <<>> /\ IsWs(Head(s)) THEN TrimStart(Tail(s)) ELSE s

RECURSIVE TrimEnd(_)
TrimEnd(s) ==
    IF s # <<>> /\ IsWs(s[Len(s)]) THEN TrimEnd(SubSeq(s, 1, Len(s) - 1)) ELSE s

Trim(s) == TrimEnd(TrimStart(s))

StartsWith(s, p) == Len(s) >= Len(p) /\ SubSeq(s, 1, Len(p)) = p

\* str::contains on one line
LineContains(s, p) ==
    \E j \in 1..(Len(s) - Len(p) + 1) : SubSeq(s, j, j + Len(p) - 1) = p

\* str::contains on the whole text: a pattern without a newline lies in a line
Contains(text, p) == \E i \in 1..Len(text) : LineContains(text[i], p)

\* str::split(sep): the pieces between the occurrences of the token sep
RECURSIVE Split(_, _)
Split(s, sep) ==
    IF \E j \in 1..Len(s) : s[j] = sep
    THEN LET j == CHOOSE k \in 1..Len(s) :
                      s[k] = sep /\ \A m \in 1..(k - 1) : s[m] # sep
         IN  <<SubSeq(s, 1, j - 1)>> \o Split(SubSeq(s, j + 1, Len(s)), sep)
    ELSE <<s>>

\* Iterator::nth(n), zero-based
Nth(seq, n) == IF Len(seq) >= n + 1 THEN Some(seq[n + 1]) ELSE None

\* str::split_whitespace: the non-empty runs between whitespace
SplitWhitespace(s) == SelectSeq(Split(s, " "), LAMBDA piece : piece # <<>>)

\* [&str]::join(sep)
RECURSIVE Join(_, _)
Join(parts, sep) ==
    IF parts = <<>> THEN <<>>
    ELSE IF Len(parts) = 1 THEN parts[1]
    ELSE parts[1] \o sep \o Join(Tail(parts), sep)

----------------------------------------------------------------------------
\* Config parser

WireGuard == "WireGuard"
OpenVPN == "OpenVPN"
VpnType == {WireGuard, OpenVPN}

UnknownFormatError ==
    <<"Unknown VPN configuration format. Expected WireGuard (.conf) or OpenVPN (.ovpn)">>

MissingPrefix == <<"Missing required fields: ">>

\* line.split('=').nth(1).map(|s| s.trim().to_string())
ValueAfterEq(line) ==
    LET v == Nth(Split(line, "="), 1)
    IN  IF v = None THEN None ELSE Some(Trim(v[1]))

WgScanInit ==
    [endpoint |-> None, dns |-> None, address |-> None,
     has_private_key |-> FALSE, has_public_key |-> FALSE]

WgScanLine(acc, raw) ==
    LET line == Trim(raw)
    IN  IF StartsWith(line, <<"Endpoint">>)
        THEN [acc EXCEPT !.endpoint = ValueAfterEq(line)]
        ELSE IF StartsWith(line, <<"DNS">>)
        THEN [acc EXCEPT !.dns = ValueAfterEq(line)]
        ELSE IF StartsWith(line, <<"Address">>)
        THEN [acc EXCEPT !.address = ValueAfterEq(line)]
        ELSE IF StartsWith(line, <<"PrivateKey">>)
        THEN [acc EXCEPT !.has_private_key = TRUE]
        ELSE IF StartsWith(line, <<"PublicKey">>)
        THEN [acc EXCEPT !.has_public_key = TRUE]
        ELSE acc

RECURSIVE WgScan(_, _)
WgScan(lines, acc) ==
    IF lines = <<>> THEN acc ELSE WgScan(Tail(lines), WgScanLine(acc, Head(lines)))

\* the missing-field list without the public key check
WgMissing_no_public(acc) ==
    (IF ~acc.has_private_key THEN << <<"PrivateKey">> >> ELSE <<>>)
    \o (IF acc.endpoint = None THEN << <<"Endpoint">> >> ELSE <<>>)

WgMissing(acc) ==
    (IF ~acc.has_private_key THEN << <<"PrivateKey">> >> ELSE <<>>)
    \o (IF ~acc.has_public_key THEN << <<"PublicKey">> >> ELSE <<>>)
    \o (IF acc.endpoint = None THEN << <<"Endpoint">> >> ELSE <<>>)

parse_wireguard_config(text) ==
    LET acc == WgScan(text, WgScanInit)
        is_valid == acc.has_private_key /\ acc.has_public_key /\ acc.endpoint # None
    IN  [vpn_type |-> WireGuard,
         endpoint |-> acc.endpoint,
         dns      |-> acc.dns,
         address  |-> acc.address,
         is_valid |-> is_valid,
         error    |-> IF ~is_valid
                      THEN Some(MissingPrefix \o Join(WgMissing(acc), <<", ">>))
                      ELSE None]

DefaultPort == <<"1194">>

OvpnScanInit == [endpoint |-> None, dns |-> None, has_ca |-> FALSE]

OvpnScanLine(acc, raw) ==
    LET line == Trim(raw)
    IN  IF StartsWith(line, <<"remote", " ">>)
        THEN LET parts == SplitWhitespace(line)
             IN  IF Len(parts) >= 2
                 THEN LET host == parts[2]
                          port == IF Len(parts) >= 3 THEN parts[3] ELSE DefaultPort
                      IN  [acc EXCEPT !.endpoint = Some(host \o <<":">> \o port)]
                 ELSE acc
        ELSE IF StartsWith(line, <<"dhcp-option", " ", "DNS">>)
        THEN LET parts == SplitWhitespace(line)
             IN  [acc EXCEPT !.dns = IF parts = <<>> THEN None
                                      ELSE Some(parts[Len(parts)])]
        ELSE IF line = <<"<ca>">> \/ StartsWith(line, <<"ca", " ">>)
        THEN [acc EXCEPT !.has_ca = TRUE]
        ELSE acc

RECURSIVE OvpnScan(_, _)
OvpnScan(lines, acc) ==
    IF lines = <<>> THEN acc
    ELSE OvpnScan(Tail(lines), OvpnScanLine(acc, Head(lines)))

OvpnMissing(acc) ==
    (IF acc.endpoint = None THEN << <<"remote server">> >> ELSE <<>>)
    \o (IF ~acc.has_ca THEN << <<"CA certificate">> >> ELSE <<>>)

parse_openvpn_config(text) ==
    LET acc == OvpnScan(text, OvpnScanInit)
        is_valid == acc.endpoint # None /\ acc.has_ca
    IN  [vpn_type |-> OpenVPN,
         endpoint |-> acc.endpoint,
         dns      |-> acc.dns,
         address  |-> None,
         is_valid |-> is_valid,
         error    |-> IF ~is_valid
                      THEN Some(MissingPrefix \o Join(OvpnMissing(acc), <<", ">>))
                      ELSE None]

is_wireguard(text) ==
    Contains(text, <<"[Interface]">>) /\ Contains(text, <<"[Peer]">>)

\* the rule with the two alternatives conjoined instead of disjoined
is_openvpn_conj(text) ==
    Contains(text, <<"client">>)
    /\ Contains(text, <<"<ca>">>) /\ Contains(text, <<"remote", " ">>)

is_openvpn(text) ==
    Contains(text, <<"client">>)
    /\ (Contains(text, <<"<ca>">>) \/ Contains(text, <<"remote", " ">>))

\* the classification with the OpenVPN rule tried first
parse_vpn_config_ovpn_first(text) ==
    IF is_openvpn(text) THEN parse_openvpn_config(text)
    ELSE IF is_wireguard(text) THEN parse_wireguard_config(text)
    ELSE [vpn_type |-> WireGuard,
          endpoint |-> None,
          dns      |-> None,
          address  |-> None,
          is_valid |-> FALSE,
          error    |-> Some(UnknownFormatError)]

parse_vpn_config(text) ==
    IF is_wireguard(text) THEN parse_wireguard_config(text)
    ELSE IF is_openvpn(text) THEN parse_openvpn_config(text)
    ELSE [vpn_type |-> WireGuard,
          endpoint |-> None,
          dns      |-> None,
          address  |-> None,
          is_valid |-> FALSE,
          error    |-> Some(UnknownFormatError)]

----------------------------------------------------------------------------
\* Explored configuration texts: marker lines followed by up to MaxBody
\* lines of the pool.

Markers ==
    { <<>>,
      << <<"[Interface]">> >>,
      << <<"[Peer]">> >>,
      << <<"client">> >>,
      << <<"[Interface]">>, <<"[Peer]">> >>,
      << <<"[Interface]">>, <<"client">> >>,
      << <<"client">>, <<"[Peer]">> >>,
      << <<"[Interface]">>, <<"[Peer]">>, <<"client">> >> }

BodyLines ==
    { <<"<ca>">>,
      <<"remote", " ", "h1", " ", "443">>,
      <<"remote", " ", "h2">>,
      <<"#", " ", "remote", " ", "h3">>,
      <<" ", "PrivateKey", " ", "=", " ", "k1">>,
      <<"PublicKey", "=", "k2">>,
      <<"Endpoint", " ", "=", " ", "e1", " ">>,
      <<"Endpoint">> }

RECURSIVE SeqsUpTo(_, _)
SeqsUpTo(S, n) ==
    IF n = 0 THEN { <<>> }
    ELSE LET shorter == SeqsUpTo(S, n - 1)
         IN  shorter \cup { Append(s, x) : s \in shorter, x \in S }

Texts == { m \o b : m \in Markers, b \in SeqsUpTo(BodyLines, MaxBody) }

----------------------------------------------------------------------------
ParseInit ==
    /\ content \in Texts
    /\ info = None
    /\ fs = {}
    /\ call = None

ParseVpnConfig ==
    /\ info = None
    /\ info' = Some(parse_vpn_config(content))
    /\ UNCHANGED <<content, fs, call>>

ParseNext == ParseVpnConfig

ParseSpec == ParseInit /\ [][ParseNext]_vars

----------------------------------------------------------------------------
\* Connection manager.  The operating system is the environment: the set fs
\* of existing installation paths, what the elevated launcher reports and
\* what the service and process queries print.  Captured output is modelled
\* as the set of phrases it contains ("other" is any other text), so that
\* str::contains is membership and str::is_empty is emptiness.

WgPath1 == "C:\\Program Files\\WireGuard\\wireguard.exe"
WgPath2 == "C:\\Program Files (x86)\\WireGuard\\wireguard.exe"
OvpnPath1 == "C:\\Program Files\\OpenVPN\\bin\\openvpn.exe"
OvpnPath2 == "C:\\Program Files (x86)\\OpenVPN\\bin\\openvpn.exe"
OvpnPath3 == "C:\\Program Files\\OpenVPN Connect\\ovpncli.exe"

wireguard_paths == <<WgPath1, WgPath2>>
openvpn_paths == <<OvpnPath1, OvpnPath2, OvpnPath3>>
InstallPaths == {WgPath1, WgPath2, OvpnPath1, OvpnPath2, OvpnPath3}

Disconnected == "Disconnected"
Connecting == "Connecting"
Connected == "Connected"
Disconnecting == "Disconnecting"
Error == "Error"
VpnStatus == {Disconnected, Connecting, Connected, Disconnecting, Error}

VpnStatusInfo(st, kind, name) ==
    [status |-> st, vpn_type |-> kind, tunnel_name |-> name, error |-> None]

\* Result<T, String>
Ok(v) == [ok |-> TRUE, value |-> Some(v), err |-> None]
Err(e) == [ok |-> FALSE, value |-> None, err |-> Some(e)]

\* What one command call did: its result and the sequence of its effects
\* ("exists" a path check, "launch" a launcher process, "sleep" the fixed
\* delay, "sc" a service query, "tasklist" a process-list query), with the
\* environment's answers to the effects it issued.
Outcome(res, log, launch, sc, tasklist) ==
    [result |-> res, log |-> log, launch |-> launch, sc |-> sc, tasklist |-> tasklist]

\* Iterator::find over the candidate paths
RECURSIVE FindExisting(_, _)
FindExisting(fsys, paths) ==
    IF paths = <<>> THEN None
    ELSE IF Head(paths) \in fsys THEN Some(Head(paths))
    ELSE FindExisting(fsys, Tail(paths))

RECURSIVE FindLog(_, _)
FindLog(fsys, paths) ==
    IF paths = <<>> THEN <<>>
    ELSE IF Head(paths) \in fsys THEN <<"exists">>
    ELSE <<"exists">> \o FindLog(fsys, Tail(paths))

detect_vpn_clients(fsys) ==
    LET wireguard_path == FindExisting(fsys, wireguard_paths)
        openvpn_path == FindExisting(fsys, openvpn_paths)
    IN  Outcome(
          Ok([wireguard |-> [available |-> wireguard_path # None,
                             path |-> wireguard_path,
                             vpn_type |-> WireGuard],
              openvpn   |-> [available |-> openvpn_path # None,
                             path |-> openvpn_path,
                             vpn_type |-> OpenVPN]]),
          FindLog(fsys, wireguard_paths) \o FindLog(fsys, openvpn_paths),
          None, None, None)

\* Path::file_name on a Windows path without a drive prefix: the last
\* component that is neither empty nor ".", unless it is "..".
FileName(path) ==
    LET pieces == SelectSeq(Split(path, "\\"),
                            LAMBDA c : c # <<>> /\ c # <<".">>)
    IN  IF pieces = <<>> THEN None
        ELSE IF pieces[Len(pieces)] = <<".", ".">> THEN None
        ELSE Some(pieces[Len(pieces)])

\* Path::file_stem: the file name up to its last dot; the whole name when it
\* has no dot or only a leading one.
FileStem(path) ==
    LET name == FileName(path)
    IN  IF name = None THEN None
        ELSE LET n == name[1]
                 dots == {j \in 1..Len(n) : n[j] = "."}
             IN  IF dots = {} THEN Some(n)
                 ELSE LET last == CHOOSE j \in dots : \A k \in dots : k <= j
                      IN  IF last = 1 THEN Some(n)
                          ELSE Some(SubSeq(n, 1, last - 1))

DefaultTunnelName == <<"claudetv_vpn">>
OpenVpnTunnelName == <<"openvpn">>

TunnelNameOf(config_path) ==
    LET stem == FileStem(config_path)
    IN  IF stem = None THEN DefaultTunnelName ELSE stem[1]

WgNotInstalled ==
    <<"WireGuard is not installed. Please install WireGuard from https://www.wireguard.com/install/">>
OvpnNotInstalled ==
    <<"OpenVPN is not installed. Please install OpenVPN from https://openvpn.net/community-downloads/">>
ConnectionCancelled ==
    <<"Connection cancelled. Administrator privileges are required.">>
FailedToStart(what) == <<"Failed to start ", what>>
FailedToStop(what) == <<"Failed to stop ", what>>
Failed(what, stderr) == <<what, " failed: ", stderr>>

\* stdout of a query that could be run contains the phrase
Found(probe, phrase) == probe.ran /\ phrase \in probe.stdout

\* connect_wireguard without the installation check
connect_wireguard_unchecked(fsys, config_path, launch, sc) ==
    LET tunnel_name == TunnelNameOf(config_path)
        connected == Ok(VpnStatusInfo(Connected, Some(WireGuard), Some(tunnel_name)))
        verified == Outcome(connected, <<"launch", "sleep", "sc">>,
                            Some(launch), Some(sc), None)
    IN  IF ~launch.spawned
        THEN Outcome(Err(FailedToStart("WireGuard")), <<"launch">>,
                     Some(launch), None, None)
        ELSE IF ~launch.success
        THEN IF \/ "canceled" \in launch.stderr
                \/ "cancelled" \in launch.stderr
                \/ "canceled" \in launch.stdout
             THEN Outcome(Err(ConnectionCancelled), <<"launch">>,
                          Some(launch), None, None)
             ELSE IF \/ "already exists" \in launch.stderr
                     \/ "already exists" \in launch.stdout
             THEN verified
             ELSE IF launch.stderr # {}
             THEN Outcome(Err(Failed("WireGuard", launch.stderr)),
                          <<"launch">>, Some(launch), None, None)
             ELSE verified
        ELSE verified

\* connect_wireguard reporting Connected only for a verified tunnel
connect_wireguard_verified_only(fsys, config_path, launch, sc) ==
    LET tunnel_name == TunnelNameOf(config_path)
        connected == Ok(VpnStatusInfo(Connected, Some(WireGuard), Some(tunnel_name)))
        verified == Outcome(IF Found(sc, "RUNNING") THEN connected
                            ELSE Err(Failed("WireGuard", {})),
                            <<"exists", "launch", "sleep", "sc">>,
                            Some(launch), Some(sc), None)
    IN  IF WgPath1 \notin fsys
        THEN Outcome(Err(WgNotInstalled), <<"exists">>, None, None, None)
        ELSE IF ~launch.spawned
        THEN Outcome(Err(FailedToStart("WireGuard")), <<"exists", "launch">>,
                     Some(launch), None, None)
        ELSE IF ~launch.success
        THEN IF \/ "canceled" \in launch.stderr
                \/ "cancelled" \in launch.stderr
                \/ "canceled" \in launch.stdout
             THEN Outcome(Err(ConnectionCancelled), <<"exists", "launch">>,
                          Some(launch), None, None)
             ELSE IF \/ "already exists" \in launch.stderr
                     \/ "already exists" \in launch.stdout
             THEN verified
             ELSE IF launch.stderr # {}
             THEN Outcome(Err(Failed("WireGuard", launch.stderr)),
                          <<"exists", "launch">>, Some(launch), None, None)
             ELSE verified
        ELSE verified

connect_wireguard(fsys, config_path, launch, sc) ==
    LET tunnel_name == TunnelNameOf(config_path)
        connected == Ok(VpnStatusInfo(Connected, Some(WireGuard), Some(tunnel_name)))
        verified == Outcome(connected, <<"exists", "launch", "sleep", "sc">>,
                            Some(launch), Some(sc), None)
    IN  IF WgPath1 \notin fsys
        THEN Outcome(Err(WgNotInstalled), <<"exists">>, None, None, None)
        ELSE IF ~launch.spawned
        THEN Outcome(Err(FailedToStart("WireGuard")), <<"exists", "launch">>,
                     Some(launch), None, None)
        ELSE IF ~launch.success
        THEN IF \/ "canceled" \in launch.stderr
                \/ "cancelled" \in launch.stderr
                \/ "canceled" \in launch.stdout
             THEN Outcome(Err(ConnectionCancelled), <<"exists", "launch">>,
                          Some(launch), None, None)
             ELSE IF \/ "already exists" \in launch.stderr
                     \/ "already exists" \in launch.stdout
             THEN verified
             ELSE IF launch.stderr # {}
             THEN Outcome(Err(Failed("WireGuard", launch.stderr)),
                          <<"exists", "launch">>, Some(launch), None, None)
             ELSE verified
        ELSE verified

\* connect_openvpn reading the error stream whatever the exit status
connect_openvpn_any_status(fsys, config_path, launch) ==
    IF OvpnPath1 \notin fsys
    THEN Outcome(Err(OvpnNotInstalled), <<"exists">>, None, None, None)
    ELSE IF ~launch.spawned
    THEN Outcome(Err(FailedToStart("OpenVPN")), <<"exists", "launch">>,
                 Some(launch), None, None)
    ELSE IF "canceled" \in launch.stderr \/ "cancelled" \in launch.stderr
    THEN Outcome(Err(ConnectionCancelled), <<"exists", "launch">>,
                 Some(launch), None, None)
    ELSE IF launch.stderr # {}
    THEN Outcome(Err(Failed("OpenVPN", launch.stderr)), <<"exists", "launch">>,
                 Some(launch), None, None)
    ELSE Outcome(Ok(VpnStatusInfo(Connected, Some(OpenVPN), Some(OpenVpnTunnelName))),
                 <<"exists", "launch", "sleep">>, Some(launch), None, None)

connect_openvpn(fsys, config_path, launch) ==
    IF OvpnPath1 \notin fsys
    THEN Outcome(Err(OvpnNotInstalled), <<"exists">>, None, None, None)
    ELSE IF ~launch.spawned
    THEN Outcome(Err(FailedToStart("OpenVPN")), <<"exists", "launch">>,
                 Some(launch), None, None)
    ELSE IF ~launch.success
            /\ ("canceled" \in launch.stderr \/ "cancelled" \in launch.stderr)
    THEN Outcome(Err(ConnectionCancelled), <<"exists", "launch">>,
                 Some(launch), None, None)
    ELSE IF ~launch.success /\ launch.stderr # {}
    THEN Outcome(Err(Failed("OpenVPN", launch.stderr)), <<"exists", "launch">>,
                 Some(launch), None, None)
    ELSE Outcome(Ok(VpnStatusInfo(Connected, Some(OpenVPN), Some(OpenVpnTunnelName))),
                 <<"exists", "launch", "sleep">>, Some(launch), None, None)

connect_vpn(fsys, config_path, vpn_type, launch, sc) ==
    IF vpn_type = WireGuard
    THEN connect_wireguard(fsys, config_path, launch, sc)
    ELSE connect_openvpn(fsys, config_path, launch)

\* disconnect_wireguard failing on a cancelled elevation prompt
disconnect_wireguard_cancel_fails(tunnel_name, launch) ==
    IF ~launch.spawned
    THEN Outcome(Err(FailedToStop("WireGuard")), <<"launch">>, Some(launch), None, None)
    ELSE IF ~launch.success /\ "canceled" \in launch.stderr
    THEN Outcome(Err(ConnectionCancelled), <<"launch">>, Some(launch), None, None)
    ELSE Outcome(Ok(VpnStatusInfo(Disconnected, None, None)), <<"launch">>,
                 Some(launch), None, None)

disconnect_wireguard(tunnel_name, launch) ==
    IF ~launch.spawned
    THEN Outcome(Err(FailedToStop("WireGuard")), <<"launch">>, Some(launch), None, None)
    ELSE Outcome(Ok(VpnStatusInfo(Disconnected, None, None)), <<"launch">>,
                 Some(launch), None, None)

\* disconnect_openvpn leaving the kind and tunnel name in its answer
disconnect_openvpn_keeps_tunnel(launch) ==
    IF ~launch.spawned
    THEN Outcome(Err(FailedToStop("OpenVPN")), <<"launch">>, Some(launch), None, None)
    ELSE Outcome(Ok(VpnStatusInfo(Disconnected, Some(OpenVPN), Some(OpenVpnTunnelName))),
                 <<"launch">>, Some(launch), None, None)

disconnect_openvpn(launch) ==
    IF ~launch.spawned
    THEN Outcome(Err(FailedToStop("OpenVPN")), <<"launch">>, Some(launch), None, None)
    ELSE Outcome(Ok(VpnStatusInfo(Disconnected, None, None)), <<"launch">>,
                 Some(launch), None, None)

disconnect_vpn(tunnel_name, vpn_type, launch) ==
    IF vpn_type = WireGuard
    THEN disconnect_wireguard(tunnel_name, launch)
    ELSE disconnect_openvpn(launch)

\* get_vpn_status asking the process list whatever kind is requested
get_vpn_status_any_kind(tunnel_name, vpn_type, sc, tasklist) ==
    LET ask_sc == tunnel_name # None
                  /\ (vpn_type = Some(WireGuard) \/ vpn_type = None)
    IN  IF ask_sc /\ Found(sc, "RUNNING")
        THEN Outcome(Ok(VpnStatusInfo(Connected, Some(WireGuard), tunnel_name)),
                     <<"sc">>, None, Some(sc), None)
        ELSE IF Found(tasklist, "openvpn.exe")
        THEN Outcome(Ok(VpnStatusInfo(Connected, Some(OpenVPN), Some(OpenVpnTunnelName))),
                     (IF ask_sc THEN <<"sc">> ELSE <<>>) \o <<"tasklist">>,
                     None, IF ask_sc THEN Some(sc) ELSE None, Some(tasklist))
        ELSE Outcome(Ok(VpnStatusInfo(Disconnected, None, None)),
                     (IF ask_sc THEN <<"sc">> ELSE <<>>) \o <<"tasklist">>,
                     None, IF ask_sc THEN Some(sc) ELSE None, Some(tasklist))

\* get_vpn_status repeating a service query that found nothing
get_vpn_status_retry(tunnel_name, vpn_type, sc, tasklist) ==
    LET ask_sc == tunnel_name # None
                  /\ (vpn_type = Some(WireGuard) \/ vpn_type = None)
        ask_tasklist == vpn_type = Some(OpenVPN) \/ vpn_type = None
    IN  IF ask_sc /\ Found(sc, "RUNNING")
        THEN Outcome(Ok(VpnStatusInfo(Connected, Some(WireGuard), tunnel_name)),
                     <<"sc">>, None, Some(sc), None)
        ELSE IF ask_tasklist /\ Found(tasklist, "openvpn.exe")
        THEN Outcome(Ok(VpnStatusInfo(Connected, Some(OpenVPN), Some(OpenVpnTunnelName))),
                     (IF ask_sc THEN <<"sc", "sc">> ELSE <<>>) \o <<"tasklist">>,
                     None, IF ask_sc THEN Some(sc) ELSE None, Some(tasklist))
        ELSE Outcome(Ok(VpnStatusInfo(Disconnected, None, None)),
                     (IF ask_sc THEN <<"sc", "sc">> ELSE <<>>)
                         \o (IF ask_tasklist THEN <<"tasklist">> ELSE <<>>),
                     None,
                     IF ask_sc THEN Some(sc) ELSE None,
                     IF ask_tasklist THEN Some(tasklist) ELSE None)

get_vpn_status(tunnel_name, vpn_type, sc, tasklist) ==
    LET ask_sc == tunnel_name # None
                  /\ (vpn_type = Some(WireGuard) \/ vpn_type = None)
        ask_tasklist == vpn_type = Some(OpenVPN) \/ vpn_type = None
    IN  IF ask_sc /\ Found(sc, "RUNNING")
        THEN Outcome(Ok(VpnStatusInfo(Connected, Some(WireGuard), tunnel_name)),
                     <<"sc">>, None, Some(sc), None)
        ELSE IF ask_tasklist /\ Found(tasklist, "openvpn.exe")
        THEN Outcome(Ok(VpnStatusInfo(Connected, Some(OpenVPN), Some(OpenVpnTunnelName))),
                     (IF ask_sc THEN <<"sc">> ELSE <<>>) \o <<"tasklist">>,
                     None, IF ask_sc THEN Some(sc) ELSE None, Some(tasklist))
        ELSE Outcome(Ok(VpnStatusInfo(Disconnected, None, None)),
                     (IF ask_sc THEN <<"sc">> ELSE <<>>)
                         \o (IF ask_tasklist THEN <<"tasklist">> ELSE <<>>),
                     None,
                     IF ask_sc THEN Some(sc) ELSE None,
                     IF ask_tasklist THEN Some(tasklist) ELSE None)

----------------------------------------------------------------------------
\* Explored inputs of the connection manager

PathChars == {"t", ".", "\\"}
ConfigPaths == SeqsUpTo(PathChars, MaxPathLen)

TunnelNames == { <<"t">>, DefaultTunnelName }

ErrPhrases == {"canceled", "cancelled", "already exists", "other"}
OutPhrases == {"canceled", "cancelled", "already exists"}

UpTo(S, n) == { x \in SUBSET S : Cardinality(x) <= n }

LaunchOutcomes ==
    { [spawned |-> FALSE, success |-> FALSE, stderr |-> {}, stdout |-> {}] }
    \cup [spawned : {TRUE}, success : BOOLEAN,
          stderr : UpTo(ErrPhrases, MaxPhrases), stdout : UpTo(OutPhrases, MaxPhrases)]

ScOutcomes ==
    { [ran |-> FALSE, stdout |-> {}] } \cup [ran : {TRUE}, stdout : SUBSET {"RUNNING"}]

TasklistOutcomes ==
    { [ran |-> FALSE, stdout |-> {}] } \cup [ran : {TRUE}, stdout : SUBSET {"openvpn.exe"}]

Request(cmd, kind, path, name, outcome) ==
    [cmd |-> cmd, vpn_type |-> kind, config_path |-> path, tunnel_name |-> name,
     result |-> outcome.result, log |-> outcome.log, launch |-> outcome.launch,
     sc |-> outcome.sc, tasklist |-> outcome.tasklist]

----------------------------------------------------------------------------
Init ==
    /\ content = <<>>
    /\ info = None
    /\ fs \in SUBSET InstallPaths
    /\ call = None

DetectVpnClients ==
    /\ call = None
    /\ call' = Some(Request("detect", None, None, None, detect_vpn_clients(fs)))
    /\ UNCHANGED <<content, info, fs>>

ConnectVpn ==
    /\ call = None
    /\ \E path \in ConfigPaths, kind \in VpnType,
          launch \in LaunchOutcomes, sc \in ScOutcomes :
           call' = Some(Request("connect", Some(kind), Some(path), None,
                                connect_vpn(fs, path, kind, launch, sc)))
    /\ UNCHANGED <<content, info, fs>>

DisconnectVpn ==
    /\ call = None
    /\ \E name \in TunnelNames, kind \in VpnType, launch \in LaunchOutcomes :
           call' = Some(Request("disconnect", Some(kind), None, Some(name),
                                disconnect_vpn(name, kind, launch)))
    /\ UNCHANGED <<content, info, fs>>

GetVpnStatus ==
    /\ call = None
    /\ \E name \in {None} \cup {Some(n) : n \in TunnelNames},
          kind \in {None} \cup {Some(k) : k \in VpnType},
          sc \in ScOutcomes, tasklist \in TasklistOutcomes :
           call' = Some(Request("status", kind, None, name,
                                get_vpn_status(name, kind, sc, tasklist)))
    /\ UNCHANGED <<content, info, fs>>

\* the caller takes the result; the next command can be invoked
Respond ==
    /\ call # None
    /\ call' = None
    /\ UNCHANGED <<content, info, fs>>

\* a client is installed or removed while no command runs
InstallOrRemove ==
    /\ call = None
    /\ \E p \in InstallPaths :
           fs' = IF p \in fs THEN fs \ {p} ELSE fs \cup {p}
    /\ UNCHANGED <<content, info, call>>

Next ==
    \/ DetectVpnClients
    \/ ConnectVpn
    \/ DisconnectVpn
    \/ GetVpnStatus
    \/ Respond
    \/ InstallOrRemove

Spec == Init /\ [][Next]_vars

----------------------------------------------------------------------------
\* Properties of the connection manager (checked under Spec)

Called(cmd) == call # None /\ call[1].cmd = cmd
Call == call[1]

Count(log, ev) == Cardinality({i \in 1..Len(log) : log[i] = ev})
Issued(ev) == Count(Call.log, ev) > 0

Returned(st, kind, name) ==
    /\ Call.result.ok
    /\ Call.result.value = Some(VpnStatusInfo(st, kind, name))

BinaryOf(kind) == IF kind = WireGuard THEN WgPath1 ELSE OvpnPath1
NotInstalledOf(kind) == IF kind = WireGuard THEN WgNotInstalled ELSE OvpnNotInstalled
ProductOf(kind) == IF kind = WireGuard THEN "WireGuard" ELSE "OpenVPN"

ExpectedTunnelName ==
    IF Call.vpn_type = Some(WireGuard)
    THEN (IF FileStem(Call.config_path[1]) = None THEN <<"claudetv_vpn">>
          ELSE FileStem(Call.config_path[1])[1])
    ELSE <<"openvpn">>

ReturnedConnected == Returned(Connected, Call.vpn_type, Some(ExpectedTunnelName))

\* the launcher process was started and its output captured
Launched == Call.launch # None /\ Call.launch[1].spawned
Stderr == Call.launch[1].stderr
Stdout == Call.launch[1].stdout
CancelKeyword(text) == "canceled" \in text \/ "cancelled" \in text

\* C5 as stated: for connect of either kind, a cancellation keyword in the
\* error stream gives the cancelled error; otherwise "already exists" in it
\* gives Connected; otherwise any non-empty error text gives a failure error.
C5_ErrorStreamDecides ==
    (Called("connect") /\ Launched) =>
        IF CancelKeyword(Stderr)
        THEN Call.result = Err(ConnectionCancelled)
        ELSE IF "already exists" \in Stderr
        THEN ReturnedConnected
        ELSE (Stderr # {} =>
                 Call.result = Err(Failed(ProductOf(Call.vpn_type[1]), Stderr)))

\* C5 amended: the output is interpreted only after a failure exit status
\* (after a success status connect returns Connected).  After a failure
\* status, in this order: a cancellation keyword in the error stream, or for
\* WireGuard "canceled" in the standard output, gives the cancelled error;
\* for WireGuard only, "already exists" in the error stream or the standard
\* output gives verification and Connected; any other non-empty error text
\* gives the failure error; an empty error stream gives Connected.
C5_FailureStatusDecides ==
    (Called("connect") /\ Launched) =>
        LET wg == Call.vpn_type = Some(WireGuard)
        IN  IF Call.launch[1].success
            THEN ReturnedConnected
            ELSE IF CancelKeyword(Stderr) \/ (wg /\ "canceled" \in Stdout)
            THEN Call.result = Err(ConnectionCancelled)
            ELSE IF wg /\ ("already exists" \in Stderr \/ "already exists" \in Stdout)
            THEN ReturnedConnected /\ Issued("sc")
            ELSE IF Stderr # {}
            THEN Call.result = Err(Failed(ProductOf(Call.vpn_type[1]), Stderr))
            ELSE ReturnedConnected

C5_Witness ==
    /\ Called("connect")
    /\ Launched
    /\ Call.vpn_type = Some(WireGuard)
    /\ ~Call.launch[1].success
    /\ Stderr = {"already exists", "other"}
    /\ ReturnedConnected
    /\ Issued("sc")

\* C6: when the client binary of the requested kind is absent, connect
\* returns the not-installed error after the path check alone: no launcher,
\* no delay, no verification probe.
C6_AbsentBinaryFailsAtOnce ==
    (Called("connect") /\ BinaryOf(Call.vpn_type[1]) \notin fs) =>
        /\ Call.result = Err(NotInstalledOf(Call.vpn_type[1]))
        /\ Call.log = <<"exists">>
        /\ Call.launch = None /\ Call.sc = None /\ Call.tasklist = None

C6_Witness ==
    /\ Called("connect")
    /\ Call.vpn_type = Some(OpenVPN)
    /\ OvpnPath1 \notin fs
    /\ OvpnPath2 \in fs
    /\ Call.result = Err(OvpnNotInstalled)

\* C7: a connect that gets past the launcher step returns Connected with the
\* requested kind and the derived tunnel name, whether or not the
\* verification probe finds a running indicator.
C7_PastLauncherIsConnected ==
    (Called("connect") /\ (Issued("sleep") \/ Call.result.ok)) =>
        /\ Issued("sleep")
        /\ ReturnedConnected

C7_Witness ==
    /\ Called("connect")
    /\ Call.vpn_type = Some(WireGuard)
    /\ Call.config_path = Some(<<"t", ".">>)
    /\ Call.sc # None
    /\ ~Found(Call.sc[1], "RUNNING")
    /\ Returned(Connected, Some(WireGuard), Some(<<"t">>))

\* C8: a disconnect whose launcher could be started returns Disconnected
\* without kind, tunnel name or error, whatever the exit status and error
\* text; it returns an error only when the launcher could not be started.
C8_DisconnectCompletes ==
    Called("disconnect") =>
        /\ Call.launch # None
        /\ Call.launch[1].spawned => Returned(Disconnected, None, None)
        /\ ~Call.result.ok <=> ~Call.launch[1].spawned

C8_Witness ==
    /\ Called("disconnect")
    /\ Call.vpn_type = Some(WireGuard)
    /\ Launched
    /\ ~Call.launch[1].success
    /\ "canceled" \in Stderr
    /\ Returned(Disconnected, None, None)

ScFound == Call.sc # None /\ Call.sc[1].ran /\ "RUNNING" \in Call.sc[1].stdout
TasklistFound ==
    Call.tasklist # None /\ Call.tasklist[1].ran
    /\ "openvpn.exe" \in Call.tasklist[1].stdout

\* C9: status never fails; it returns Connected with kind K and K's tunnel
\* name only if a running indicator of K was found and the kind argument is
\* absent or K; when no query of the call found an indicator (also because
\* the query could not be run) it returns Disconnected without kind and name.
C9_StatusReportsIndicators ==
    Called("status") =>
        /\ Call.result.ok
        /\ Call.result.value[1].status \in {Connected, Disconnected}
        /\ Call.result.value[1].status = Connected =>
              \/ /\ Returned(Connected, Some(WireGuard), Call.tunnel_name)
                 /\ Call.tunnel_name # None
                 /\ ScFound
                 /\ Call.vpn_type \in {None, Some(WireGuard)}
              \/ /\ Returned(Connected, Some(OpenVPN), Some(<<"openvpn">>))
                 /\ TasklistFound
                 /\ Call.vpn_type \in {None, Some(OpenVPN)}
        /\ (~ScFound /\ ~TasklistFound) => Returned(Disconnected, None, None)

C9_Witness ==
    /\ Called("status")
    /\ Call.vpn_type = None
    /\ Call.tunnel_name # None
    /\ Call.sc # None /\ ~Call.sc[1].ran
    /\ Call.tasklist # None /\ Call.tasklist[1].ran /\ ~TasklistFound
    /\ Returned(Disconnected, None, None)

Probes(log) == Count(log, "sc") + Count(log, "tasklist")

\* C10 as stated: every command call issues at most one external process
\* and at most one probe; a status call never runs more than one OS query.
C10_OneProcessOneProbe ==
    call # None =>
        /\ Count(Call.log, "launch") <= 1
        /\ Probes(Call.log) <= 1

\* C10 amended: every command call issues at most one launcher process and
\* each query at most once, without retry; connect, disconnect and detect
\* run at most one query, status runs no launcher and at most two queries
\* (the service query, then the process-list query).
C10_NoRetry ==
    call # None =>
        /\ Count(Call.log, "launch") <= 1
        /\ Count(Call.log, "sleep") <= 1
        /\ Count(Call.log, "sc") <= 1
        /\ Count(Call.log, "tasklist") <= 1
        /\ Call.cmd # "status" => Probes(Call.log) <= 1
        /\ Call.cmd = "status" =>
              /\ Count(Call.log, "launch") = 0
              /\ Call.log \in {<<>>, <<"sc">>, <<"tasklist">>, <<"sc", "tasklist">>}

C10_Witness ==
    /\ Called("status")
    /\ Call.log = <<"sc", "tasklist">>
    /\ Returned(Connected, Some(OpenVPN), Some(<<"openvpn">>))

\* C11: every status record that connect, disconnect or status returns is
\* Connected or Disconnected, carries no error string, has kind and tunnel
\* name both set exactly when Connected and both absent exactly when
\* Disconnected; connect never returns Disconnected, disconnect never
\* Connected.
C11_StatusRecordShape ==
    (call # None /\ Call.cmd \in {"connect", "disconnect", "status"} /\ Call.result.ok) =>
        LET rec == Call.result.value[1]
        IN  /\ rec.status \in {Connected, Disconnected}
            /\ rec.status \notin {Connecting, Disconnecting, Error}
            /\ rec.error = None
            /\ rec.status = Connected <=> rec.vpn_type # None
            /\ rec.status = Connected <=> rec.tunnel_name # None
            /\ rec.vpn_type # None => rec.vpn_type[1] \in VpnType
            /\ Call.cmd = "connect" => rec.status = Connected
            /\ Call.cmd = "disconnect" => rec.status = Disconnected

C11_Witness ==
    /\ Called("status")
    /\ Call.vpn_type = None
    /\ Call.tunnel_name = Some(<<"t">>)
    /\ Call.result.ok
    /\ Call.result.value[1] =
           [status |-> Connected, vpn_type |-> Some(WireGuard),
            tunnel_name |-> Some(<<"t">>), error |-> None]

\* what detect reports for a kind in the current filesystem state
DetectedAvailable(kind) ==
    LET found == detect_vpn_clients(fs).result.value[1]
    IN  IF kind = WireGuard THEN found.wireguard.available
        ELSE found.openvpn.available

\* C12: in a fixed filesystem state, when detect reports a kind available
\* (some candidate path of the kind exists), connect of that kind does not
\* fail with the not-installed error.
C12_DetectedMeansConnectable ==
    (Called("connect") /\ DetectedAvailable(Call.vpn_type[1])) =>
        Call.result # Err(NotInstalledOf(Call.vpn_type[1]))

----------------------------------------------------------------------------
\* Properties of the config parser (checked under ParseSpec)

Parsed == info # None
Info == info[1]

HasLineStarting(text, p) == \E i \in 1..Len(text) : StartsWith(Trim(text[i]), p)

HasBothMarkers(text) ==
    Contains(text, <<"[Interface]">>) /\ Contains(text, <<"[Peer]">>)

MatchesOpenVpnRule(text) ==
    /\ Contains(text, <<"client">>)
    /\ (Contains(text, <<"<ca>">>) \/ HasLineStarting(text, <<"remote", " ">>))

\* C1 as stated: every text with `client` and (`<ca>` or a `remote ` line) is
\* classified OpenVPN, also when it contains [Interface] and [Peer].
C1_AlwaysOpenVpn ==
    (Parsed /\ MatchesOpenVpnRule(content)) => Info.vpn_type = OpenVPN

\* C1 amended: a text with `client` and (`<ca>` or a `remote ` line) that does
\* not contain both [Interface] and [Peer] is classified OpenVPN.
C1_OpenVpnUnlessWireGuard ==
    (Parsed /\ MatchesOpenVpnRule(content) /\ ~HasBothMarkers(content))
        => Info.vpn_type = OpenVPN

C1_Witness ==
    /\ Parsed
    /\ MatchesOpenVpnRule(content)
    /\ Contains(content, <<"[Interface]">>)
    /\ ~Contains(content, <<"[Peer]">>)
    /\ ~Contains(content, <<"<ca>">>)
    /\ Info.vpn_type = OpenVPN

\* C2: every text containing both [Interface] and [Peer] is classified
\* WireGuard, valid or not, also when it satisfies the OpenVPN rule.
C2_MarkersGiveWireGuard ==
    (Parsed /\ HasBothMarkers(content)) => Info.vpn_type = WireGuard

C2_Witness ==
    /\ Parsed
    /\ HasBothMarkers(content)
    /\ MatchesOpenVpnRule(content)
    /\ Info.vpn_type = WireGuard
    /\ ~Info.is_valid

\* The names of the required WireGuard fields a parsed text lacks, in order.
C3_ExpectedMissing ==
    LET priv == HasLineStarting(content, <<"PrivateKey">>)
        pub  == HasLineStarting(content, <<"PublicKey">>)
        ep   == Info.endpoint # None
        rest == IF pub THEN (IF ep THEN <<>> ELSE <<"Endpoint">>)
                ELSE (IF ep THEN <<"PublicKey">> ELSE <<"PublicKey", ", ", "Endpoint">>)
    IN  IF priv THEN rest
        ELSE IF rest = <<>> THEN <<"PrivateKey">>
        ELSE <<"PrivateKey", ", ">> \o rest

C4_FirstRemoteEndpoint(text) ==
    LET i == CHOOSE k \in 1..Len(text) :
                 /\ StartsWith(Trim(text[k]), <<"remote", " ">>)
                 /\ \A m \in 1..(k - 1) : ~StartsWith(Trim(text[m]), <<"remote", " ">>)
        parts == SplitWhitespace(text[i])
    IN  parts[2] \o <<":">> \o (IF Len(parts) >= 3 THEN parts[3] ELSE <<"1194">>)

\* C4: for a text parsed as OpenVPN the endpoint is host:port of the FIRST
\* line starting with `remote ` (port 1194 when the line has no third token);
\* later `remote ` lines do not change it.
C4_EndpointFromFirstRemote ==
    (/\ Parsed
     /\ Info.vpn_type = OpenVPN
     /\ HasLineStarting(content, <<"remote", " ">>))
        => Info.endpoint = Some(C4_FirstRemoteEndpoint(content))

====
